---- MODULE Spec2Model ----
(***************************************************************************)
(* Model of the debate scoring service: backend_ml/ml_judge.py             *)
(* (DebateJudge), backend_ml/advanced_ai.py (AdvancedDebateAnalyzer) and   *)
(* the routes of backend_ml/main.py.                                       *)
(*                                                                         *)
(* Representation.                                                         *)
(*  - A text is a sequence of one-character strings.                       *)
(*  - A percentage is an integer number of tenths (501 is 50.1).  A value  *)
(*    that the code does not round (an average, a total) is an exact       *)
(*    fraction [num, den] of tenths, den > 0.  Python computes in binary   *)
(*    floating point; the model computes exactly and rounds half to even,  *)
(*    which is what round() does on the values the model draws.            *)
(*  - A classifier score and a cosine similarity are integers in units of  *)
(*    1/10000.                                                             *)
(*  - The outcome of a call is [kind |-> "return", value |-> v] or         *)
(*    [kind |-> "raise", exc |-> e].                                       *)
(***************************************************************************)
EXTENDS Integers, Sequences, FiniteSets, TLC

VARIABLES
    _initialized,        \* DebateJudge._initialized
    sentiment_analyzer,  \* DebateJudge.sentiment_analyzer: "unset" or "loaded"
    embedder,            \* DebateJudge.embedder: "unset" or "loaded"
    _init_lock,          \* DebateJudge._init_lock: 0 (free) or the holding thread
    emotion_classifier,  \* AdvancedDebateAnalyzer.emotion_classifier: "None" or "loaded"
    topic_classifier,    \* AdvancedDebateAnalyzer.topic_classifier
    sentence_model,      \* AdvancedDebateAnalyzer.sentence_model
    phase,               \* main.py: "import" before the warmup block, "serving" after
    call,                \* the last call or request, with what the external models did
    ret,                 \* its outcome
    invoked,             \* the external models the last call invoked, in order
    initFailed,          \* history: an init_models call has raised
    pc,                  \* per thread: the statement it is at
    op,                  \* per thread: the method it is running
    loadCount            \* history: how many times both models were stored

vars == <<_initialized, sentiment_analyzer, embedder, _init_lock,
          emotion_classifier, topic_classifier, sentence_model, phase,
          call, ret, invoked, initFailed, pc, op, loadCount>>

judgeVars == <<_initialized, sentiment_analyzer, embedder>>
advVars == <<emotion_classifier, topic_classifier, sentence_model>>
threadVars == <<_init_lock, pc, op, loadCount>>
\* What a step of a thread inside the judge leaves alone.
serviceVars == <<advVars, phase, call, ret, invoked>>

----------------------------------------------------------------------------
(* Bounds of the model.                                                    *)

\* Longest text given to score_argument on its own.
MaxLen == 3
\* Most arguments on one side of a debate.
MaxArgs == 2
\* Threads calling into the judge concurrently.
NumThreads == 2
\* Most arguments in the sequence given to analyze_debate_dynamics.
MaxDebate == 3

\* Characters of the texts: whitespace, a sentence terminator, letters that
\* spell a filler word, and an upper-case letter.
Alphabet == {" ", ".", "?", "u", "m", "U"}

\* Texts of the arguments of a debate: an empty one and a worded one.  (Two
\* empty arguments join to a whitespace-only side.)
ArgTexts == {<<>>, <<"U", "m", " ", "u", "m">>}

\* Scores the sentiment classifier returns (units of 1/10000, in [0,1]).
ClassifierScores == {0, 17, 10000}
\* Scores the classifier returns while a debate is evaluated.
DebateClassifierScores == {17}
\* Cosine similarities the embedder yields (units of 1/10000, in [-1,1]).
Similarities == {-5004, 0, 8496, 10000}
\* Labels the emotion classifier scores highest, and the score it gives.
Emotions == {"joy", "anger"}
EmotionScores == {9000}
\* Cosine similarities of two adjacent arguments of a debate.
DebateSimilarities == {-5004, 8496}

----------------------------------------------------------------------------
(* Arithmetic.                                                             *)

Max(a, b) == IF a >= b THEN a ELSE b
Min(a, b) == IF a <= b THEN a ELSE b

\* round(n/d) to the nearest integer, ties to the even one (d > 0).
RoundHalfEven(n, d) ==
    LET q == n \div d
        r == n % d
    IN  IF 2 * r < d THEN q
        ELSE IF 2 * r > d THEN q + 1
        ELSE IF q % 2 = 0 THEN q ELSE q + 1

\* A fraction of tenths.
Frac(n, d) == [num |-> n, den |-> d]
\* round(x, 1) of a fraction of tenths: an integer number of tenths.
Round1(x) == RoundHalfEven(x.num, x.den)
FracGeq(x, y) == x.num * y.den >= y.num * x.den
RECURSIVE GCD(_, _)
GCD(a, b) == IF b = 0 THEN a ELSE GCD(b, a % b)
Abs(a) == IF a < 0 THEN 0 - a ELSE a
\* The fraction n/d in lowest terms (d > 0).
Reduced(n, d) ==
    LET g == GCD(Abs(n), d) IN Frac(n \div g, d \div g)
FracAdd(x, y) ==
    LET m == (x.den \div GCD(x.den, y.den)) * y.den
    IN  Reduced(x.num * (m \div x.den) + y.num * (m \div y.den), m)
\* (k/10) * x
FracWeight(k, x) == Reduced(k * x.num, 10 * x.den)

RECURSIVE SumSeq(_)
SumSeq(s) == IF s = <<>> THEN 0 ELSE Head(s) + SumSeq(Tail(s))

----------------------------------------------------------------------------
(* Python's str methods, on sequences of characters.                       *)

IsSpace(c) == c = " "

\* str.lower()
LowerChar(c) == IF c = "U" THEN "u" ELSE c
Lower(text) == [i \in DOMAIN text |-> LowerChar(text[i])]

\* str.strip()
RECURSIVE LStrip(_)
LStrip(text) ==
    IF text # <<>> /\ IsSpace(Head(text)) THEN LStrip(Tail(text)) ELSE text
RECURSIVE RStrip(_)
RStrip(text) ==
    IF text # <<>> /\ IsSpace(text[Len(text)])
    THEN RStrip(SubSeq(text, 1, Len(text) - 1)) ELSE text
Strip(text) == RStrip(LStrip(text))

\* text[:n]
Truncate(text, n) == SubSeq(text, 1, Min(n, Len(text)))

\* Whether text starts with the non-empty sequence f.
StartsWith(text, f) ==
    Len(text) >= Len(f) /\ SubSeq(text, 1, Len(f)) = f

\* str.count(f): occurrences of f in text that do not overlap, left to right.
RECURSIVE Count(_, _)
Count(text, f) ==
    IF Len(text) < Len(f) THEN 0
    ELSE IF StartsWith(text, f)
         THEN 1 + Count(SubSeq(text, Len(f) + 1, Len(text)), f)
         ELSE Count(Tail(text), f)

\* str.replace(old, new) for single characters.
Replace(text, old, new) ==
    [i \in DOMAIN text |-> IF text[i] = old THEN new ELSE text[i]]

\* str.split(sep) for a single character: the pieces, empty ones included.
RECURSIVE SplitOn(_, _, _)
SplitOn(text, sep, piece) ==
    IF text = <<>> THEN <<piece>>
    ELSE IF Head(text) = sep
         THEN <<piece>> \o SplitOn(Tail(text), sep, <<>>)
         ELSE SplitOn(Tail(text), sep, Append(piece, Head(text)))

\* str.split(): the maximal runs of non-whitespace characters.
RECURSIVE SplitWords(_, _)
SplitWords(text, word) ==
    IF text = <<>> THEN (IF word = <<>> THEN <<>> ELSE <<word>>)
    ELSE IF IsSpace(Head(text))
         THEN (IF word = <<>> THEN <<>> ELSE <<word>>)
              \o SplitWords(Tail(text), <<>>)
         ELSE SplitWords(Tail(text), Append(word, Head(text)))
Split(text) == SplitWords(text, <<>>)

\* " ".join(args)
RECURSIVE Join(_)
Join(args) ==
    IF args = <<>> THEN <<>>
    ELSE IF Len(args) = 1 THEN args[1]
    ELSE args[1] \o <<" ">> \o Join(Tail(args))

\* The sequences over S of length at most n.
SeqsUpTo(S, n) == UNION {[1..k -> S] : k \in 0..n}

Texts == SeqsUpTo(Alphabet, MaxLen)

\* Python's None given where a text is expected (a missing text): a value
\* that is no text.
None == <<"None">>

\* "text or ''": None and the empty text give the empty text.
OrEmpty(text) == IF text = None \/ text = <<>> THEN <<>> ELSE text

----------------------------------------------------------------------------
(* Outcomes of calls, and what the external models answer.                 *)

Return(v) == [kind |-> "return", value |-> v]
Raise(e) == [kind |-> "raise", exc |-> e]

\* The sentiment pipeline: it raises, or returns [{label, score}].
ClassifierRaises == [kind |-> "raise"]
ClassifierReturns(l, s) == [kind |-> "return", label |-> l, score |-> s]
ClassifierOutcomes(scores) ==
    {ClassifierRaises}
    \cup {ClassifierReturns(l, s) : l \in {"POSITIVE", "NEGATIVE"}, s \in scores}
\* The model is not invoked.
NotInvoked == [kind |-> "none"]

\* The embedder with util.cos_sim: it raises, or yields a similarity.
EmbedderRaises == [kind |-> "raise"]
EmbedderReturns(sim) == [kind |-> "return", sim |-> sim]
EmbedderOutcomes ==
    {EmbedderRaises} \cup {EmbedderReturns(s) : s \in Similarities}

\* str.upper() of a classifier label.
UpperLabel(l) == IF l = "positive" THEN "POSITIVE" ELSE l

----------------------------------------------------------------------------
(* DebateJudge: the scoring methods, with the models loaded.               *)

metrics == <<"sentiment", "clarity", "vocab_richness", "avg_word_len">>

\* DebateJudge._rating, of a fraction of tenths.
_rating(value) ==
    IF FracGeq(value, Frac(850, 1)) THEN "Excellent"
    ELSE IF FracGeq(value, Frac(700, 1)) THEN "Good"
    ELSE IF FracGeq(value, Frac(500, 1)) THEN "Fair"
    ELSE "Poor"

SubScore(score, rating) == [score |-> score, rating |-> rating]
\* A sub-score rated on the value it reports (tenths).
Rated(pct) == SubScore(pct, _rating(Frac(pct, 1)))

filler == << <<"u", "m">>, <<"u", "h">>, <<"l", "i", "k", "e">>,
             <<"y", "o", "u", " ", "k", "n", "o", "w">>,
             <<"b", "a", "s", "i", "c", "a", "l", "l", "y">>, <<"s", "o">> >>

\* The sentiment block of score_argument: the raw score in units of 1/10000.
\* The except clause maps a failure of the classifier to 0.0.
sentiment_score(cls) ==
    IF cls.kind = "raise" THEN 0
    ELSE IF UpperLabel(cls.label) = "POSITIVE" THEN cls.score
    ELSE 0 - cls.score

\* round((sentiment_score + 1) * 50, 1), in tenths.
sentiment_pct(cls) == RoundHalfEven(sentiment_score(cls) + 10000, 20)

filler_count(text) ==
    SumSeq([i \in DOMAIN filler |-> Count(Lower(text), filler[i])])

sentences(text) ==
    SelectSeq(SplitOn(Replace(Replace(text, "?", "."), "!", "."), ".", <<>>),
              LAMBDA s : Strip(s) # <<>>)

\* round(clarity_raw * 100, 1), in tenths.
clarity_pct(text) ==
    LET length == Len(Split(text))
        L == Max(1, length)
        kept == L - Min(L, filler_count(text))
        runOn == length > 30 * Max(1, Len(sentences(text)))
    IN  IF runOn THEN RoundHalfEven(600 * kept, L)
        ELSE RoundHalfEven(1000 * kept, L)

\* round(vocab_richness_raw * 100, 1), in tenths.
vocab_pct(text) ==
    LET words == Split(text)
        distinct == {Lower(words[i]) : i \in DOMAIN words}
    IN  RoundHalfEven(1000 * Cardinality(distinct), Max(1, Len(words)))

\* min(100, round(avg_word_len * 10, 1)), in tenths.
avg_word_len_score(text) ==
    LET words == Split(text)
        total == SumSeq([i \in DOMAIN words |-> Len(words[i])])
    IN  IF words = <<>> THEN 0
        ELSE Min(1000, RoundHalfEven(100 * total, Len(words)))

ZeroScores ==
    [sentiment |-> SubScore(0, "Poor"), clarity |-> SubScore(0, "Poor"),
     vocab_richness |-> SubScore(0, "Poor"), avg_word_len |-> SubScore(0, "Poor"),
     length |-> 0]

\* The classifier call of score_argument raises and nothing catches it.
score_argument_uncaught(text, cls) ==
    LET t == OrEmpty(text) IN
    IF Strip(t) = <<>>
    THEN [out |-> Return(ZeroScores), calls |-> <<>>]
    ELSE [out |-> IF cls.kind = "raise" THEN Raise("Exception")
                  ELSE Return(
                      [sentiment |-> Rated(sentiment_pct(cls)),
                       clarity |-> Rated(clarity_pct(t)),
                       vocab_richness |-> Rated(vocab_pct(t)),
                       avg_word_len |-> Rated(avg_word_len_score(t)),
                       length |-> Len(Split(t))]),
          calls |-> <<[model |-> "sentiment_analyzer",
                       input |-> Truncate(t, 512)]>>]

\* DebateJudge.score_argument past its initialization check: the outcome and
\* the external models invoked.  cls is what the classifier does if invoked.
score_argument(text, cls) ==
    LET t == OrEmpty(text) IN
    IF Strip(t) = <<>>
    THEN [out |-> Return(ZeroScores), calls |-> <<>>]
    ELSE [out |-> Return(
              [sentiment |-> Rated(sentiment_pct(cls)),
               clarity |-> Rated(clarity_pct(t)),
               vocab_richness |-> Rated(vocab_pct(t)),
               avg_word_len |-> Rated(avg_word_len_score(t)),
               length |-> Len(Split(t))]),
          calls |-> <<[model |-> "sentiment_analyzer",
                       input |-> Truncate(t, 512)]>>]

\* compare_arguments without its test for an empty side.
compare_arguments_unguarded(args_a, args_b, emb) ==
    [out |-> IF emb.kind = "return" THEN Return(RoundHalfEven(emb.sim, 10))
             ELSE Raise("Exception"),
     calls |-> <<[model |-> "embedder", input |-> Join(args_a)],
                 [model |-> "embedder", input |-> Join(args_b)]>>]

\* DebateJudge.compare_arguments past its initialization check.  emb is what
\* the embedder does if invoked; the result is round(sim * 100, 1) in tenths.
compare_arguments(args_a, args_b, emb) ==
    LET text_a == Join(args_a)
        text_b == Join(args_b)
    IN  IF Strip(text_a) = <<>> \/ Strip(text_b) = <<>>
        THEN [out |-> Return(0), calls |-> <<>>]
        ELSE IF emb.kind = "raise"
        THEN [out |-> Raise("Exception"),
              calls |-> <<[model |-> "embedder", input |-> text_a]>>]
        ELSE [out |-> Return(RoundHalfEven(emb.sim, 10)),
              calls |-> <<[model |-> "embedder", input |-> text_a],
                          [model |-> "embedder", input |-> text_b]>>]

\* avg_scores of evaluate: per metric the mean of the scores, 0 for no scores.
avg_scores(scores) ==
    [m \in {metrics[i] : i \in DOMAIN metrics} |->
        IF scores # <<>>
        THEN Frac(SumSeq([i \in DOMAIN scores |-> scores[i][m].score]), Len(scores))
        ELSE Frac(0, 1)]

\* total_score of evaluate, unrounded.
total_score(avg, coherence) ==
    FracAdd(FracWeight(3, avg["clarity"]),
    FracAdd(FracWeight(3, avg["sentiment"]),
    FracAdd(FracWeight(2, avg["vocab_richness"]),
    FracAdd(FracWeight(1, avg["avg_word_len"]),
            FracWeight(1, Frac(coherence, 1))))))

\* The scores of one side as evaluate reports them.
side_scores(avg) ==
    [m \in DOMAIN avg |-> SubScore(Round1(avg[m]), _rating(avg[m]))]

RECURSIVE ConcatAll(_)
ConcatAll(ss) == IF ss = <<>> THEN <<>> ELSE Head(ss) \o ConcatAll(Tail(ss))

\* [self.score_argument(a) for a in args]: each call's outcome and the models
\* it invoked, in order.  cls[i] is what the classifier does on the i-th one.
RECURSIVE score_all(_, _)
score_all(args, cls) ==
    IF args = <<>> THEN <<>>
    ELSE <<score_argument(Head(args), Head(cls))>>
         \o score_all(Tail(args), Tail(cls))

\* DebateJudge.evaluate past its initialization check.  cls_a[i] and cls_b[i]
\* are what the classifier does on the i-th argument of each side.
evaluate(args_a, args_b, cls_a, cls_b, emb) ==
    LET sa == score_all(args_a, cls_a)
        sb == score_all(args_b, cls_b)
        scoreCalls == ConcatAll([i \in DOMAIN sa |-> sa[i].calls])
                      \o ConcatAll([i \in DOMAIN sb |-> sb[i].calls])
        failed == \/ \E i \in DOMAIN sa : sa[i].out.kind = "raise"
                  \/ \E i \in DOMAIN sb : sb[i].out.kind = "raise"
        avg_a == avg_scores([i \in DOMAIN sa |-> sa[i].out.value])
        avg_b == avg_scores([i \in DOMAIN sb |-> sb[i].out.value])
        cmp == compare_arguments(args_a, args_b, emb)
        coherence == cmp.out.value
        total_a == Round1(total_score(avg_a, coherence))
        total_b == Round1(total_score(avg_b, coherence))
    IN  IF failed THEN [out |-> Raise("Exception"), calls |-> scoreCalls]
        ELSE IF cmp.out.kind = "raise"
        THEN [out |-> cmp.out, calls |-> scoreCalls \o cmp.calls]
        ELSE [out |-> Return(
                  [scores |-> [A |-> side_scores(avg_a), B |-> side_scores(avg_b)],
                   coherence |-> SubScore(coherence, _rating(Frac(coherence, 1))),
                   totals |-> [A |-> total_a, B |-> total_b],
                   winner |-> IF total_a >= total_b THEN "A" ELSE "B"]),
              calls |-> scoreCalls \o cmp.calls]

----------------------------------------------------------------------------
(* DebateJudge: construction and initialization, one call at a time.       *)

\* What loading the two models does: both load, pipeline(...) raises, or
\* SentenceTransformer(...) raises.
LoadOutcomes == {"ok", "sentiment_fails", "embedder_fails"}

\* DebateJudge.__init__: the flag is false and no model attribute is set.
JudgeConstructed ==
    /\ _initialized = FALSE
    /\ sentiment_analyzer = "unset"
    /\ embedder = "unset"
    /\ _init_lock = 0

\* DebateJudge.init_models run to its end by one caller: the judge's fields
\* afterwards and whether the call raised.
init_models(load) ==
    IF _initialized
    THEN [raised |-> FALSE, initialized |-> TRUE,
          sentiment_analyzer |-> sentiment_analyzer, embedder |-> embedder]
    ELSE IF load = "sentiment_fails"
    THEN [raised |-> TRUE, initialized |-> FALSE,
          sentiment_analyzer |-> sentiment_analyzer, embedder |-> embedder]
    ELSE IF load = "embedder_fails"
    THEN [raised |-> TRUE, initialized |-> FALSE,
          sentiment_analyzer |-> "loaded", embedder |-> embedder]
    ELSE [raised |-> FALSE, initialized |-> TRUE,
          sentiment_analyzer |-> "loaded", embedder |-> "loaded"]

\* "if not self._initialized: self.init_models()" at the head of a method.
ensure_initialized(load) ==
    IF ~_initialized THEN init_models(load)
    ELSE [raised |-> FALSE, initialized |-> TRUE,
          sentiment_analyzer |-> sentiment_analyzer, embedder |-> embedder]

\* The loads a call can meet: none when the models are already loaded.
LoadsNow == IF _initialized THEN {"none"} ELSE LoadOutcomes

\* A call on the judge: init is its initialization check, body the rest of
\* the method, which runs only when the check did not raise.
JudgeCall(record, init, body) ==
    /\ _initialized' = init.initialized
    /\ sentiment_analyzer' = init.sentiment_analyzer
    /\ embedder' = init.embedder
    /\ initFailed' = (initFailed \/ init.raised)
    /\ call' = record
    /\ LET done == IF init.raised
                   THEN [out |-> Raise("LoadError"), calls |-> <<>>]
                   ELSE body
       IN  ret' = done.out /\ invoked' = done.calls
    /\ UNCHANGED <<advVars, threadVars, phase>>

IsBlank(text) == Strip(OrEmpty(text)) = <<>>

\* What the classifier may do on each argument of args: it is invoked on the
\* non-blank ones only, and on none when the models are not there (~live).
ClassifierRuns(args, live, scores) ==
    {c \in [DOMAIN args -> ClassifierOutcomes(scores) \cup {NotInvoked}] :
        \A i \in DOMAIN args :
            (c[i] = NotInvoked) <=> (~live \/ IsBlank(args[i]))}

\* What the embedder may do for two sides.
EmbedderRuns(args_a, args_b, live) ==
    IF live /\ ~IsBlank(Join(args_a)) /\ ~IsBlank(Join(args_b))
    THEN EmbedderOutcomes ELSE {NotInvoked}

\* The service is up and no call is in progress.
Ready == phase = "serving" /\ call.op = "none"

\* A caller runs judge.score_argument(text).
ScoreArgumentCall ==
    /\ Ready
    /\ \E text \in Texts \cup {None}, load \in LoadsNow :
         \E cls \in ClassifierRuns(<<text>>, load \in {"none", "ok"}, ClassifierScores) :
            JudgeCall([op |-> "score_argument", text |-> text,
                       cls |-> cls[1], load |-> load],
                      ensure_initialized(load),
                      score_argument(text, cls[1]))

\* A caller runs judge.compare_arguments(args_a, args_b).
CompareArgumentsCall ==
    /\ Ready
    /\ \E args_a \in SeqsUpTo(ArgTexts, MaxArgs),
          args_b \in SeqsUpTo(ArgTexts, MaxArgs), load \in LoadsNow :
         \E emb \in EmbedderRuns(args_a, args_b, load \in {"none", "ok"}) :
            JudgeCall([op |-> "compare_arguments", args_a |-> args_a,
                       args_b |-> args_b, emb |-> emb, load |-> load],
                      ensure_initialized(load),
                      compare_arguments(args_a, args_b, emb))

\* A caller runs judge.evaluate(args_a, args_b).
EvaluateCall ==
    /\ Ready
    /\ \E args_a \in SeqsUpTo(ArgTexts, MaxArgs),
          args_b \in SeqsUpTo(ArgTexts, MaxArgs), load \in LoadsNow :
         LET live == load \in {"none", "ok"} IN
         \E cls_a \in ClassifierRuns(args_a, live, DebateClassifierScores),
            cls_b \in ClassifierRuns(args_b, live, DebateClassifierScores),
            emb \in EmbedderRuns(args_a, args_b, live) :
            JudgeCall([op |-> "evaluate", args_a |-> args_a, args_b |-> args_b,
                       cls_a |-> cls_a, cls_b |-> cls_b, emb |-> emb,
                       load |-> load],
                      ensure_initialized(load),
                      evaluate(args_a, args_b, cls_a, cls_b, emb))

NoCall ==
    /\ call = [op |-> "none"]
    /\ ret = [kind |-> "none"]
    /\ invoked = <<>>

Threads == 1 .. NumThreads

ThreadsIdle ==
    /\ pc = [t \in Threads |-> "idle"]
    /\ op = [t \in Threads |-> "none"]
    /\ loadCount = 0

\* The service after a warmup that loaded every model.
InitLoaded ==
    /\ _initialized = TRUE
    /\ sentiment_analyzer = "loaded"
    /\ embedder = "loaded"
    /\ _init_lock = 0
    /\ emotion_classifier = "loaded"
    /\ topic_classifier = "loaded"
    /\ sentence_model = "loaded"
    /\ phase = "serving"
    /\ initFailed = FALSE
    /\ NoCall
    /\ ThreadsIdle

\* The caller has taken the outcome of its call; the next call can start.
TakeOutcome ==
    /\ call.op # "none"
    /\ call' = [op |-> "none"]
    /\ ret' = [kind |-> "none"]
    /\ invoked' = <<>>
    /\ UNCHANGED <<judgeVars, advVars, threadVars, phase, initFailed>>

NextLoaded ==
    ScoreArgumentCall \/ CompareArgumentsCall \/ EvaluateCall \/ TakeOutcome

\* The judge's methods called one at a time with the models loaded.
SpecLoaded == InitLoaded /\ [][NextLoaded]_vars

----------------------------------------------------------------------------
(* AdvancedDebateAnalyzer and the routes of main.py.                       *)

\* AdvancedDebateAnalyzer.__init__: every model attribute is None.
AnalyzerConstructed ==
    /\ emotion_classifier = "None"
    /\ topic_classifier = "None"
    /\ sentence_model = "None"

\* What loading the three advanced models does: every one loads, or one of
\* them raises, which init_models catches, leaving the later ones None.
AdvancedLoadOutcomes == {"ok", "emotion_fails", "topic_fails", "sentence_fails"}

\* AdvancedDebateAnalyzer.init_models: the fields afterwards.
advanced_init_models(load) ==
    [emotion_classifier |-> IF load = "emotion_fails" THEN "None" ELSE "loaded",
     topic_classifier |-> IF load \in {"emotion_fails", "topic_fails"}
                          THEN "None" ELSE "loaded",
     sentence_model |-> IF load = "ok" THEN "loaded" ELSE "None"]

\* The warmup block of main.py: judge.init_models() and then
\* advanced_ai.init_models(), inside one try; a failure is printed.
Warmup ==
    /\ phase = "import"
    /\ \E load \in LoadOutcomes :
         LET init == init_models(load) IN
         /\ _initialized' = init.initialized
         /\ sentiment_analyzer' = init.sentiment_analyzer
         /\ embedder' = init.embedder
         /\ initFailed' = init.raised
         /\ IF init.raised
            THEN UNCHANGED advVars
            ELSE \E aload \in AdvancedLoadOutcomes :
                   LET adv == advanced_init_models(aload) IN
                   /\ emotion_classifier' = adv.emotion_classifier
                   /\ topic_classifier' = adv.topic_classifier
                   /\ sentence_model' = adv.sentence_model
    /\ phase' = "serving"
    /\ UNCHANGED <<call, ret, invoked, threadVars>>

\* The methods of class DebateJudge.
JudgeMethods ==
    {"init_models", "_rating", "score_argument", "compare_arguments", "evaluate"}

\* getattr(judge, name): the instance attributes that __init__ and
\* init_models assign, then the methods of the class.
JudgeGetAttr(name) ==
    IF name = "device" THEN Return("None")
    ELSE IF name = "_init_lock" THEN Return(_init_lock)
    ELSE IF name = "_initialized" THEN Return(_initialized)
    ELSE IF name = "sentiment_analyzer" /\ sentiment_analyzer = "loaded"
    THEN Return("loaded")
    ELSE IF name = "embedder" /\ embedder = "loaded" THEN Return("loaded")
    ELSE IF name \in JudgeMethods THEN Return("method")
    ELSE Raise("AttributeError")

\* The emotion pipeline on one text: it raises, or returns scored labels, of
\* which l has the highest score s.
EmotionRaises == [kind |-> "raise"]
EmotionReturns(l, s) == [kind |-> "return", label |-> l, score |-> s]
EmotionOutcomes ==
    {EmotionRaises} \cup {EmotionReturns(l, s) : l \in Emotions, s \in EmotionScores}

\* AdvancedDebateAnalyzer.analyze_argument_emotion: the label and confidence
\* of its answer (the list of the top three is not read by any caller here).
\* cls is what the emotion classifier does if invoked.
analyze_argument_emotion(cls) ==
    IF emotion_classifier = "None" \/ cls.kind # "return"
    THEN [emotion |-> "neutral", confidence |-> 5000]
    ELSE [emotion |-> cls.label, confidence |-> cls.score]

\* AdvancedDebateAnalyzer.calculate_argument_similarity: 0.0 without the
\* sentence model or when encoding raises.  emb is what the model does.
calculate_argument_similarity(emb) ==
    IF sentence_model = "None" \/ emb.kind # "return" THEN 0 ELSE emb.sim

\* The distinct elements of s in the order of their first occurrence: the
\* keys of Counter(s).
RECURSIVE Distinct(_, _)
Distinct(s, seen) ==
    IF s = <<>> THEN <<>>
    ELSE IF Head(s) \in seen THEN Distinct(Tail(s), seen)
    ELSE <<Head(s)>> \o Distinct(Tail(s), seen \cup {Head(s)})

CountOf(s, x) == Cardinality({i \in DOMAIN s : s[i] = x})

\* Counter(s).most_common(n): (element, count) by falling count, elements
\* of equal count in the order of their first occurrence.
most_common(s, n) ==
    LET keys == Distinct(s, {})
        before(i, j) ==
            \/ CountOf(s, keys[i]) > CountOf(s, keys[j])
            \/ CountOf(s, keys[i]) = CountOf(s, keys[j]) /\ i < j
        rank(i) == 1 + Cardinality({j \in DOMAIN keys : before(j, i)})
        sorted == [r \in DOMAIN keys |->
                     LET i == CHOOSE i \in DOMAIN keys : rank(i) = r
                     IN  <<keys[i], CountOf(s, keys[i])>>]
    IN  SubSeq(sorted, 1, Min(n, Len(sorted)))

\* AdvancedDebateAnalyzer.analyze_debate_dynamics: no arguments give {};
\* arg['content'] is read of each argument.  emo[i] is what the emotion
\* classifier does on argument i, emb[i] what the sentence model does on
\* arguments i-1 and i.  A similarity and its mean are in units of 1/10000,
\* the mean an exact fraction; emotional_diversity is a fraction of 1.
analyze_debate_dynamics(arguments, emo, emb) ==
    IF arguments = <<>> THEN Return(<<>>)
    ELSE IF \E i \in DOMAIN arguments : "content" \notin DOMAIN arguments[i]
    THEN Raise("KeyError")
    ELSE
    LET n == Len(arguments)
        emotions == [i \in 1..n |-> analyze_argument_emotion(emo[i]).emotion]
        similarities ==
            [k \in 1..(n - 1) |-> calculate_argument_similarity(emb[k + 1])]
        emotion_counts == Distinct(emotions, {})
        avg_similarity ==
            IF similarities = <<>> THEN Frac(0, 1)
            ELSE Reduced(SumSeq(similarities), Len(similarities))
    IN  Return(
            [total_arguments |-> n,
             emotional_diversity |->
                 IF emotions = <<>> THEN Frac(0, 1)
                 ELSE Reduced(Len(emotion_counts), Len(emotions)),
             dominant_emotions |-> most_common(emotions, 3),
             average_similarity |-> avg_similarity,
             debate_coherence |->
                 Reduced(10000 * avg_similarity.den - avg_similarity.num,
                         avg_similarity.den),
             emotional_progression |-> emotions])

\* The models analyze_debate_dynamics invokes, in order.
dynamics_invoked(arguments) ==
    LET step(i) ==
            (IF emotion_classifier = "None" THEN <<>>
             ELSE <<[model |-> "emotion_classifier",
                     input |-> arguments[i].content]>>)
            \o (IF i = 1 \/ sentence_model = "None" THEN <<>>
                ELSE <<[model |-> "sentence_model",
                        input |-> <<arguments[i - 1].content,
                                    arguments[i].content>>]>>)
    IN  ConcatAll([i \in DOMAIN arguments |-> step(i)])

\* The route /finalize: the body of its try block, and the except clause
\* that turns any exception into {"error": ...}.
finalize_debate(arguments) ==
    LET method == JudgeGetAttr("finalize_debate")
        dynamics == analyze_debate_dynamics(arguments, <<>>, <<>>)
    IN  IF method.kind = "raise" THEN Return([error |-> method.exc])
        ELSE IF sentence_model = "None"
        THEN Return([result |-> method.value])
        ELSE IF dynamics.kind = "raise" THEN Return([error |-> dynamics.exc])
        ELSE Return([result |-> method.value, debate_dynamics |-> dynamics.value])

\* The route /health: nothing catches what building the answer raises.
health_check ==
    LET model == JudgeGetAttr("model") IN
    IF model.kind = "raise" THEN model
    ELSE Return([status |-> "healthy",
                 models_loaded |-> model.value # "None",
                 advanced_ai_loaded |-> sentence_model # "None"])

Usernames == {"ann", "bob"}

\* The arguments of a well-formed /finalize request.
FinalizeArguments ==
    SeqsUpTo([username : Usernames, argumentText : ArgTexts], MaxArgs)

\* A request that calls no method of the judge.
Request(record, outcome) ==
    /\ Ready
    /\ call' = record
    /\ ret' = outcome
    /\ invoked' = <<>>
    /\ UNCHANGED <<judgeVars, advVars, threadVars, phase, initFailed>>

\* POST /finalize
FinalizeDebate ==
    \E arguments \in FinalizeArguments :
        Request([op |-> "finalize_debate", arguments |-> arguments],
                finalize_debate(arguments))

\* GET /health
HealthCheck == Request([op |-> "health_check"], health_check)

\* The arguments of a debate as analyze_debate_dynamics reads them.
DebateArguments == SeqsUpTo([content : ArgTexts], MaxDebate)

\* What the emotion classifier may do on each argument: it is invoked only
\* when it is loaded.
EmotionRuns(arguments) ==
    [DOMAIN arguments ->
        IF emotion_classifier = "None" THEN {NotInvoked} ELSE EmotionOutcomes]

\* What the sentence model may do on each pair of adjacent arguments.
SimilarityRuns(arguments) ==
    [2 .. Len(arguments) ->
        IF sentence_model = "None" THEN {NotInvoked}
        ELSE {EmbedderRaises} \cup {EmbedderReturns(x) : x \in DebateSimilarities}]

\* A caller runs advanced_ai.analyze_debate_dynamics(arguments).
AnalyzeDebateDynamicsCall ==
    /\ Ready
    /\ \E arguments \in DebateArguments :
         \E emo \in EmotionRuns(arguments), emb \in SimilarityRuns(arguments) :
            /\ call' = [op |-> "analyze_debate_dynamics",
                        arguments |-> arguments, emo |-> emo, emb |-> emb]
            /\ ret' = analyze_debate_dynamics(arguments, emo, emb)
            /\ invoked' = dynamics_invoked(arguments)
    /\ UNCHANGED <<judgeVars, advVars, threadVars, phase, initFailed>>

\* main.py is imported: the judge and the analyzer are constructed.
Init ==
    /\ JudgeConstructed
    /\ AnalyzerConstructed
    /\ phase = "import"
    /\ initFailed = FALSE
    /\ NoCall
    /\ ThreadsIdle

Next ==
    \/ Warmup
    \/ ScoreArgumentCall
    \/ CompareArgumentsCall
    \/ EvaluateCall
    \/ FinalizeDebate
    \/ HealthCheck
    \/ AnalyzeDebateDynamicsCall
    \/ TakeOutcome

\* The service from import on, its requests handled one at a time.
Spec == Init /\ [][Next]_vars

----------------------------------------------------------------------------
(* DebateJudge under threads: init_models and the initialization checks of *)
(* the methods, statement by statement.  The calls carry non-blank texts,  *)
(* so score_argument reaches the classifier and compare_arguments the      *)
(* embedder.  op[t] is the method thread t is in; inside evaluate it is    *)
(* "evaluate.score_argument" and then "evaluate.compare_arguments".        *)

EntryPoints == {"init_models", "score_argument", "compare_arguments", "evaluate"}

\* Where a method goes on once its initialization check is behind it.
AfterInit(method) ==
    IF method = "init_models" THEN [pc |-> "idle", op |-> "none"]
    ELSE IF method \in {"score_argument", "evaluate.score_argument"}
    THEN [pc |-> "invoke_sentiment", op |-> method]
    ELSE IF method \in {"compare_arguments", "evaluate.compare_arguments"}
    THEN [pc |-> "invoke_embedder", op |-> method]
    ELSE [pc |-> "check", op |-> "evaluate.score_argument"]

Goto(t, to) ==
    /\ pc' = [pc EXCEPT ![t] = to.pc]
    /\ op' = [op EXCEPT ![t] = to.op]

\* Thread t calls a method of the judge.
Begin(t) ==
    /\ pc[t] = "idle"
    /\ \E method \in EntryPoints :
         Goto(t, [pc |-> IF method = "init_models" THEN "acquire" ELSE "check",
                  op |-> method])
    /\ UNCHANGED <<judgeVars, _init_lock, loadCount, initFailed, serviceVars>>

\* "if not self._initialized: self.init_models()", read without the lock.
Check(t) ==
    /\ pc[t] = "check"
    /\ IF ~_initialized
       THEN Goto(t, [pc |-> "acquire", op |-> op[t]])
       ELSE Goto(t, AfterInit(op[t]))
    /\ UNCHANGED <<judgeVars, _init_lock, loadCount, initFailed, serviceVars>>

\* Acquire taken without waiting for the lock to be free.
AcquireUnlocked(t) ==
    /\ pc[t] = "acquire"
    /\ _init_lock' = t
    /\ Goto(t, [pc |-> "locked_check", op |-> op[t]])
    /\ UNCHANGED <<judgeVars, loadCount, initFailed, serviceVars>>

\* "with self._init_lock:" on entry.
Acquire(t) ==
    /\ pc[t] = "acquire"
    /\ _init_lock = 0
    /\ _init_lock' = t
    /\ Goto(t, [pc |-> "locked_check", op |-> op[t]])
    /\ UNCHANGED <<judgeVars, loadCount, initFailed, serviceVars>>

\* "if self._initialized: return", holding the lock.
LockedCheck(t) ==
    /\ pc[t] = "locked_check"
    /\ IF _initialized
       THEN /\ _init_lock' = 0
            /\ Goto(t, AfterInit(op[t]))
       ELSE /\ UNCHANGED _init_lock
            /\ Goto(t, [pc |-> "load_sentiment", op |-> op[t]])
    /\ UNCHANGED <<judgeVars, loadCount, initFailed, serviceVars>>

\* An exception leaves the with block, which releases the lock, and the
\* method thread t called.
RaiseFromInit(t) ==
    /\ _init_lock' = 0
    /\ initFailed' = TRUE
    /\ Goto(t, [pc |-> "idle", op |-> "none"])

\* init_models with "self._initialized = True" written before the embedder
\* is stored.
LoadSentimentFlagFirst(t) ==
    /\ pc[t] = "load_sentiment"
    /\ \E loaded \in BOOLEAN :
         IF loaded
         THEN /\ sentiment_analyzer' = "loaded"
              /\ _initialized' = TRUE
              /\ Goto(t, [pc |-> "load_embedder", op |-> op[t]])
              /\ UNCHANGED <<_init_lock, initFailed>>
         ELSE /\ RaiseFromInit(t)
              /\ UNCHANGED <<sentiment_analyzer, _initialized>>
    /\ UNCHANGED <<embedder, loadCount, serviceVars>>

\* "self.sentiment_analyzer = pipeline(...)"
LoadSentiment(t) ==
    /\ pc[t] = "load_sentiment"
    /\ \E loaded \in BOOLEAN :
         IF loaded
         THEN /\ sentiment_analyzer' = "loaded"
              /\ Goto(t, [pc |-> "load_embedder", op |-> op[t]])
              /\ UNCHANGED <<_init_lock, initFailed>>
         ELSE /\ RaiseFromInit(t)
              /\ UNCHANGED sentiment_analyzer
    /\ UNCHANGED <<_initialized, embedder, loadCount, serviceVars>>

\* "self.embedder = SentenceTransformer(...)"
LoadEmbedder(t) ==
    /\ pc[t] = "load_embedder"
    /\ \E loaded \in BOOLEAN :
         IF loaded
         THEN /\ embedder' = "loaded"
              /\ Goto(t, [pc |-> "set_flag", op |-> op[t]])
              /\ UNCHANGED <<_init_lock, initFailed>>
         ELSE /\ RaiseFromInit(t)
              /\ UNCHANGED embedder
    /\ UNCHANGED <<_initialized, sentiment_analyzer, loadCount, serviceVars>>

\* "self._initialized = True"
SetFlag(t) ==
    /\ pc[t] = "set_flag"
    /\ _initialized' = TRUE
    /\ loadCount' = loadCount + 1
    /\ Goto(t, [pc |-> "release", op |-> op[t]])
    /\ UNCHANGED <<sentiment_analyzer, embedder, _init_lock, initFailed, serviceVars>>

\* The end of the with block.
Release(t) ==
    /\ pc[t] = "release"
    /\ _init_lock' = 0
    /\ Goto(t, AfterInit(op[t]))
    /\ UNCHANGED <<judgeVars, loadCount, initFailed, serviceVars>>

\* "self.sentiment_analyzer(text[:512])" in score_argument.
InvokeSentiment(t) ==
    /\ pc[t] = "invoke_sentiment"
    /\ IF op[t] = "evaluate.score_argument"
       THEN Goto(t, [pc |-> "check", op |-> "evaluate.compare_arguments"])
       ELSE Goto(t, [pc |-> "idle", op |-> "none"])
    /\ UNCHANGED <<judgeVars, _init_lock, loadCount, initFailed, serviceVars>>

\* "self.embedder.encode(...)" in compare_arguments.
InvokeEmbedder(t) ==
    /\ pc[t] = "invoke_embedder"
    /\ Goto(t, [pc |-> "idle", op |-> "none"])
    /\ UNCHANGED <<judgeVars, _init_lock, loadCount, initFailed, serviceVars>>

\* A judge just constructed, shared by the threads.
InitThreads ==
    /\ JudgeConstructed
    /\ AnalyzerConstructed
    /\ phase = "serving"
    /\ initFailed = FALSE
    /\ NoCall
    /\ ThreadsIdle

NextThreads ==
    \/ \E t \in Threads : Begin(t)
    \/ \E t \in Threads : Check(t)
    \/ \E t \in Threads : Acquire(t)
    \/ \E t \in Threads : LockedCheck(t)
    \/ \E t \in Threads : LoadSentiment(t)
    \/ \E t \in Threads : LoadEmbedder(t)
    \/ \E t \in Threads : SetFlag(t)
    \/ \E t \in Threads : Release(t)
    \/ \E t \in Threads : InvokeSentiment(t)
    \/ \E t \in Threads : InvokeEmbedder(t)

\* Threads calling the methods of one judge in any interleaving.
SpecThreads == InitThreads /\ [][NextThreads]_vars

----------------------------------------------------------------------------
(* The claims.                                                             *)

MetricNames == {metrics[i] : i \in DOMAIN metrics}
JudgeOps == {"score_argument", "compare_arguments", "evaluate"}

\* The rating the fixed thresholds give a reported value (tenths).
ThresholdRating(v) ==
    IF v >= 850 THEN "Excellent"
    ELSE IF v >= 700 THEN "Good"
    ELSE IF v >= 500 THEN "Fair"
    ELSE "Poor"

RatingRank(r) ==
    CASE r = "Poor" -> 0 [] r = "Fair" -> 1 [] r = "Good" -> 2
      [] r = "Excellent" -> 3 [] OTHER -> -1

\* The sub-scores the last call reported.
ReportedSubScores ==
    IF call.op = "score_argument" /\ ret.kind = "return"
    THEN {ret.value[m] : m \in MetricNames}
    ELSE IF call.op = "evaluate" /\ ret.kind = "return"
    THEN {ret.value.scores.A[m] : m \in MetricNames}
         \cup {ret.value.scores.B[m] : m \in MetricNames}
         \cup {ret.value.coherence}
    ELSE {}

\* The total of one side of the last evaluate call before it is rounded.
UnroundedTotal(args, cls) ==
    total_score(
        avg_scores(LET scored == score_all(args, cls)
                   IN  [i \in DOMAIN scored |-> scored[i].out.value]),
        ret.value.coherence.score)

\* C1: evaluate names "A" the winner exactly when the unrounded total of
\* side A is at least the unrounded total of side B, and "B" otherwise.
C1_WinnerFromUnroundedTotals ==
    (call.op = "evaluate" /\ ret.kind = "return") =>
        ret.value.winner =
            IF FracGeq(UnroundedTotal(call.args_a, call.cls_a),
                       UnroundedTotal(call.args_b, call.cls_b))
            THEN "A" ELSE "B"

\* C2: after init_models has raised and while the models are still not
\* loaded, a call to score_argument, compare_arguments or evaluate returns
\* its neutral result (sentiment 50.0 for raw 0.0, coherence 0.0) and does
\* not raise.
C2_ServesAfterFailedInit ==
    (call.op \in JudgeOps /\ initFailed /\ ~_initialized) =>
        /\ ret.kind = "return"
        /\ (call.op = "score_argument" /\ ~IsBlank(call.text))
              => ret.value.sentiment.score = 500
        /\ call.op = "compare_arguments" => ret.value = 0
        /\ call.op = "evaluate" => ret.value.coherence.score = 0

\* The statements of init_models between the check of the flag and its end.
LoadingSection == {"load_sentiment", "load_embedder", "set_flag"}

\* C3: under concurrent callers the models are loaded at most once, at most
\* one thread at a time is in the loading section, and once _initialized is
\* true no thread is in it.
C3_LoadedAtMostOnce ==
    /\ loadCount <= 1
    /\ Cardinality({t \in Threads : pc[t] \in LoadingSection}) <= 1
    /\ _initialized => \A t \in Threads : pc[t] \notin LoadingSection

\* Two callers met at the first use: one has loaded the models, and another,
\* which had read the flag as false, holds the lock and finds it true.
C3_Witness ==
    \E t \in Threads :
        /\ pc[t] = "locked_check"
        /\ op[t] \in {"score_argument", "compare_arguments", "evaluate"}
        /\ _initialized
        /\ loadCount = 1

\* C4: when the embedder raises for two non-empty sides, compare_arguments
\* returns 0.0 and evaluate still returns a verdict.
C4_EmbedderFailureIsSoft ==
    (call.op \in {"compare_arguments", "evaluate"} /\ call.emb.kind = "raise") =>
        /\ ret.kind = "return"
        /\ call.op = "compare_arguments" => ret.value = 0
        /\ call.op = "evaluate" =>
              /\ ret.value.coherence.score = 0
              /\ ret.value.winner \in {"A", "B"}

RatingProbes == {0, 499, 500, 699, 700, 849, 850, 1000}

\* C5: every sub-score that score_argument and evaluate report carries the
\* rating the thresholds (85, 70, 50) give its reported value, and the rating
\* is monotonic in the value.
C5_RatingOfReportedValue ==
    /\ \A s \in ReportedSubScores : s.rating = ThresholdRating(s.score)
    /\ \A x, y \in RatingProbes :
          x <= y => RatingRank(_rating(Frac(x, 1))) <= RatingRank(_rating(Frac(y, 1)))

\* C6: every reported sub-score value lies in [0,100], and so does the
\* coherence compare_arguments returns.
C6_SubScoresInRange ==
    /\ \A s \in ReportedSubScores : 0 <= s.score /\ s.score <= 1000
    /\ (call.op = "compare_arguments" /\ ret.kind = "return")
          => (0 <= ret.value /\ ret.value <= 1000)

\* C7: with an empty argument list on a side evaluate returns a verdict: the
\* averaged metrics of an empty side are 0, coherence is 0.0 and the embedder
\* is not invoked, and two empty sides give totals 0 and winner "A".
C7_EmptySideStillJudged ==
    (call.op = "evaluate" /\ (call.args_a = <<>> \/ call.args_b = <<>>)) =>
        /\ ret.kind = "return"
        /\ call.args_a = <<>> =>
              \A m \in MetricNames : ret.value.scores.A[m].score = 0
        /\ call.args_b = <<>> =>
              \A m \in MetricNames : ret.value.scores.B[m].score = 0
        /\ ret.value.coherence.score = 0
        /\ \A i \in DOMAIN invoked : invoked[i].model # "embedder"
        /\ ret.value.winner \in {"A", "B"}
        /\ (call.args_a = <<>> /\ call.args_b = <<>>) =>
              /\ ret.value.totals = [A |-> 0, B |-> 0]
              /\ ret.value.winner = "A"

\* evaluate has judged an empty side A against a worded side B.
C7_Witness ==
    /\ call.op = "evaluate"
    /\ call.args_a = <<>>
    /\ \E i \in DOMAIN call.args_b : ~IsBlank(call.args_b[i])
    /\ ret.kind = "return"
    /\ ret.value.winner = "B"

\* C8: with the judge's models loaded, a well-formed /finalize request is
\* answered with a verdict (scores and a winner, no error), which holds the
\* debate dynamics when the sentence model is loaded.
C8_FinalizeReturnsVerdict ==
    (call.op = "finalize_debate" /\ _initialized) =>
        /\ ret.kind = "return"
        /\ "error" \notin DOMAIN ret.value
        /\ sentence_model = "loaded" => "debate_dynamics" \in DOMAIN ret.value

\* C9: GET /health never fails, and its answer tells whether the judge's
\* models and the advanced models are loaded.
C9_HealthReportsLoading ==
    call.op = "health_check" =>
        /\ ret.kind = "return"
        /\ ret.value.status = "healthy"
        /\ ret.value.models_loaded = _initialized
        /\ ret.value.advanced_ai_loaded = (sentence_model = "loaded")

\* C10: when the classifier raises on a non-empty text, score_argument
\* returns: the sentiment score is 50.0 (raw 0.0), and clarity,
\* vocab_richness, avg_word_len and length are those of a call in which the
\* classifier answered.
C10_ClassifierFailureIsSoft ==
    (call.op = "score_argument" /\ call.cls.kind = "raise") =>
        /\ ret.kind = "return"
        /\ ret.value.sentiment = SubScore(500, "Fair")
        /\ \A answer \in ClassifierOutcomes(ClassifierScores) \ {ClassifierRaises} :
              LET other == score_argument(call.text, answer).out IN
              /\ other.kind = "return"
              /\ ret.value.clarity = other.value.clarity
              /\ ret.value.vocab_richness = other.value.vocab_richness
              /\ ret.value.avg_word_len = other.value.avg_word_len
              /\ ret.value.length = other.value.length
        /\ ret.value.clarity.score = clarity_pct(call.text)
        /\ ret.value.vocab_richness.score = vocab_pct(call.text)
        /\ ret.value.avg_word_len.score = avg_word_len_score(call.text)
        /\ ret.value.length = Len(Split(call.text))

\* score_argument has returned for a text with a filler word on which the
\* classifier raised.
C10_Witness ==
    /\ call.op = "score_argument"
    /\ call.cls.kind = "raise"
    /\ filler_count(call.text) > 0
    /\ ret.kind = "return"

\* C11: for an empty, a whitespace-only and a missing text score_argument
\* returns the zero score set (every sub-score 0 and "Poor", length 0) and
\* invokes neither the sentiment classifier nor the embedder.
C11_BlankTextScoresZero ==
    (call.op = "score_argument" /\ IsBlank(call.text)) =>
        /\ ret = Return(ZeroScores)
        /\ invoked = <<>>

\* The similarities of the adjacent pairs up to argument k of the last
\* analyze_debate_dynamics call, added up.
RECURSIVE AdjacentSum(_)
AdjacentSum(k) ==
    IF k < 2 THEN 0
    ELSE AdjacentSum(k - 1)
         + (IF call.emb[k].kind = "return" THEN call.emb[k].sim ELSE 0)

\* C12: for every sequence of arguments, the empty and the single-argument
\* one included, analyze_debate_dynamics reports average_similarity, the
\* mean of the similarities of the adjacent pairs (0 with fewer than two
\* arguments), and debate_coherence = 1 - average_similarity.
C12_AverageOfAdjacentPairs ==
    call.op = "analyze_debate_dynamics" =>
        LET n == Len(call.arguments) IN
        /\ ret.kind = "return"
        /\ {"average_similarity", "debate_coherence"} \subseteq DOMAIN ret.value
        /\ LET avg == ret.value.average_similarity
               coherence == ret.value.debate_coherence
           IN  /\ n < 2 => avg.num = 0
               /\ n >= 2 => avg.num * (n - 1) = AdjacentSum(n) * avg.den
               /\ coherence.num * avg.den
                     = (10000 * avg.den - avg.num) * coherence.den

\* The statements of init_models inside "with self._init_lock:".
UnderLock ==
    {"locked_check", "load_sentiment", "load_embedder", "set_flag", "release"}

\* C13: in every interleaving of threads calling init_models, score_argument,
\* compare_arguments and evaluate, _initialized is true only when both models
\* are stored, a thread about to invoke sentiment_analyzer or embedder finds
\* both stored, and a thread inside the locked part of init_models holds the
\* lock, so a thread that read _initialized as false waits while another
\* one loads.
C13_NoUseBeforeLoaded ==
    /\ _initialized => (sentiment_analyzer = "loaded" /\ embedder = "loaded")
    /\ \A t \in Threads :
          /\ pc[t] \in {"invoke_sentiment", "invoke_embedder"} =>
                (sentiment_analyzer = "loaded" /\ embedder = "loaded")
          /\ pc[t] \in UnderLock => _init_lock = t

\* A thread read the flag as true without the lock and is about to invoke
\* the classifier while the thread that loaded the models still holds the
\* lock.
C13_Witness ==
    \E t, u \in Threads :
        /\ pc[t] = "invoke_sentiment"
        /\ pc[u] = "release"
        /\ _init_lock = u

====
